---- MODULE Spec2Model ----
(***************************************************************************)
(* Raycasting maze game (raycast_maze.cpp, raycast_maze-v1.cpp,            *)
(* raycast_maze-all-sdl2-only.cpp): the maze generator, the exploration    *)
(* tracker and the session loop of the three program variants.             *)
(*                                                                         *)
(* Coordinates: a cell is <<x, y>> (column, row); the grid is indexed      *)
(* gameMap[y][x] as in the source.  Cell values are the source's           *)
(* 0 = empty, 1 = wall, 2 = finish.                                        *)
(* Positions (the source's doubles) are fixed-point integers, Scale units  *)
(* to one cell.                                                            *)
(***************************************************************************)
EXTENDS Integers, Sequences, FiniteSets, TLC

\* The source's map is 250 x 250: both dimensions are even.  The model keeps
\* the parity and scales the size: MAP_WIDTH = 2 * HalfWidth.
HalfWidth == 3

HalfHeight == 3

MAP_WIDTH == 2 * HalfWidth

MAP_HEIGHT == 2 * HalfHeight

\* v1 only: the fixed finish cell.
finishX == MAP_WIDTH - 3

finishY == MAP_HEIGHT - 3

Cols == 0 .. (MAP_WIDTH - 1)

Rows == 0 .. (MAP_HEIGHT - 1)

Cells == Cols \X Rows

\* The three program variants and the preprocessor symbols a build may define.
\* raycast_maze.cpp and raycast_maze-all-sdl2-only.cpp refuse (#error) a build
\* that defines both USE_THRESHOLD and USE_FINISH; v1 reads no symbol.
Variants == {"multi", "sdl2", "v1"}

FlagSets ==
    { fs \in SUBSET {"USE_BOTH", "USE_FINISH", "USE_THRESHOLD"} :
        ~ ({"USE_THRESHOLD", "USE_FINISH"} \subseteq fs) }

Builds ==
    { b \in [variant : Variants, flags : FlagSets] :
        b.variant = "v1" => b.flags = {} }

VARIABLES
    build,            \* which program and which -D symbols
    gameMap,          \* int gameMap[MAP_HEIGHT][MAP_WIDTH]
    stack,            \* generateMaze: the std::stack of <<x, y>>, top last
    finish,           \* placeRandomFinish: <<fX, fY>>, <<-1, -1>> before it is chosen
    pc,               \* position in the program
    caller,           \* who called generateMaze
    visitedCells,     \* bool visitedCells[MAP_HEIGHT][MAP_WIDTH]
    distinctVisited,  \* int distinctVisited
    oob,              \* TRUE once memory outside visitedCells has been accessed
    posX,             \* posX_player, fixed point
    posY,             \* posY_player, fixed point
    lastOp,           \* the last tracker / loop operation that ran
    calls,            \* number of operations run so far (bounded)
    appFocused,       \* main: bool appFocused
    quitApp,          \* main: bool quitApp
    dirX,             \* main: facing direction, fixed point
    dirY,
    planeX,           \* main: camera plane, fixed point
    planeY,
    fullscreen,       \* main: bool fullscreen (false with -windowed)
    screenWidth,      \* main: int screenWidth
    screenHeight,     \* main: int screenHeight
    frame,            \* the pixels <<x, y>> of screen written by the last render pass
    rays              \* the raycasting loop's locals at the end of each column

genVars == <<gameMap, stack, finish>>

trackVars == <<visitedCells, distinctVisited, oob>>

loopVars == <<posX, posY, lastOp, calls, appFocused, quitApp>>

poseVars == <<dirX, dirY, planeX, planeY>>

screenVars == <<fullscreen, screenWidth, screenHeight, frame, rays>>

vars == <<build, gameMap, stack, finish, pc, caller,
          visitedCells, distinctVisited, oob, posX, posY, lastOp, calls,
          appFocused, quitApp, dirX, dirY, planeX, planeY,
          fullscreen, screenWidth, screenHeight, frame, rays>>

-----------------------------------------------------------------------------
(* Grid helpers *)

AllWalls == [y \in Rows |-> [x \in Cols |-> 1]]

SetCell(m, x, y, v) == [m EXCEPT ![y][x] = v]

\* #if !defined(USE_THRESHOLD) || defined(USE_FINISH) || defined(USE_BOTH)
FinishCompiled(b) ==
    /\ b.variant \in {"multi", "sdl2"}
    /\ \/ "USE_THRESHOLD" \notin b.flags
       \/ "USE_FINISH" \in b.flags
       \/ "USE_BOTH" \in b.flags

-----------------------------------------------------------------------------
(* generateMaze *)

\* Mutant: one of the four steps is a single cell.
directionsUnitStep == << <<0, -2>>, <<0, 1>>, <<-2, 0>>, <<2, 0>> >>

directions == << <<0, -2>>, <<0, 2>>, <<-2, 0>>, <<2, 0>> >>

\* The candidate of direction d from (cx, cy).
Candidate(cx, cy, d) == <<cx + directions[d][1], cy + directions[d][2]>>

\* Mutant: the test that the cell is still a wall is lost.
IsCarvableAnyCell(m, n) ==
    /\ n[1] > 0 /\ n[1] < MAP_WIDTH - 1
    /\ n[2] > 0 /\ n[2] < MAP_HEIGHT - 1

IsCarvable(m, n) ==
    /\ n[1] > 0 /\ n[1] < MAP_WIDTH - 1
    /\ n[2] > 0 /\ n[2] < MAP_HEIGHT - 1
    /\ m[n[2]][n[1]] = 1

\* The neighbors vector, in the order of directions[].
neighbors(m, cx, cy) ==
    LET all == [d \in 1..4 |-> Candidate(cx, cy, d)]
    IN SelectSeq(all, LAMBDA n : IsCarvable(m, n))

\* Lines 125-130: fill with walls, open (1,1), push it.
\* Mutant: the fill stops two rows early.
FillButLastRows(m) ==
    [y \in DOMAIN m |-> [x \in DOMAIN m[y] |->
        IF y < MAP_HEIGHT - 2 THEN 1 ELSE m[y][x]]]

\* for (y ...) for (x ...) gameMap[y][x] = 1;
Fill(m) == [y \in DOMAIN m |-> [x \in DOMAIN m[y] |-> 1]]

GenStart ==
    /\ pc = "genStart"
    /\ gameMap' = SetCell(Fill(gameMap), 1, 1, 0)
    /\ stack' = << <<1, 1>> >>
    /\ finish' = <<-1, -1>>
    /\ pc' = "carve"
    /\ UNCHANGED <<poseVars, screenVars, build, caller, trackVars, loopVars>>

\* Mutant: the halving of the step is lost, so the wall between stays closed.
CarveNoWall(m, cx, cy, nx, ny) ==
    LET wallX == cx + (nx - cx)
        wallY == cy + (ny - cy)
    IN SetCell(SetCell(m, wallX, wallY, 0), nx, ny, 0)

\* The two cells one carving step opens: the wall between and the neighbour.
Carve(m, cx, cy, nx, ny) ==
    LET wallX == cx + (nx - cx) \div 2
        wallY == cy + (ny - cy) \div 2
    IN SetCell(SetCell(m, wallX, wallY, 0), nx, ny, 0)

\* One iteration of while (!stack.empty()).
CarveStep ==
    /\ pc = "carve"
    /\ stack # << >>
    /\ LET top == stack[Len(stack)]
           nb  == neighbors(gameMap, top[1], top[2])
       IN IF nb # << >>
          THEN \E i \in 1..Len(nb) :
                 /\ gameMap' = Carve(gameMap, top[1], top[2], nb[i][1], nb[i][2])
                 /\ stack' = Append(stack, nb[i])
          ELSE /\ stack' = SubSeq(stack, 1, Len(stack) - 1)
               /\ gameMap' = gameMap
    /\ UNCHANGED <<poseVars, screenVars, build, finish, pc, caller, trackVars, loopVars>>

\* "Force borders to be walls."
BordersForced(m) ==
    [y \in Rows |-> [x \in Cols |->
        IF x = 0 \/ x = MAP_WIDTH - 1 \/ y = 0 \/ y = MAP_HEIGHT - 1
        THEN 1 ELSE m[y][x]]]

ForceBorders ==
    /\ pc = "carve"
    /\ stack = << >>
    /\ gameMap' = BordersForced(gameMap)
    /\ pc' = "carved"
    /\ UNCHANGED <<poseVars, screenVars, build, stack, finish, caller, trackVars, loopVars>>

\* Mutant: the finish cell is put one cell inside the border.
FinishCellInward(border, off) ==
    CASE border = 0 -> <<off, 0 + 1>>
      [] border = 1 -> <<off, (MAP_HEIGHT - 1) - 1>>
      [] border = 2 -> <<0 + 1, off>>
      [] OTHER      -> <<(MAP_WIDTH - 1) - 1, off>>

\* placeRandomFinish: the finish cell of a border (0 = TOP, 1 = BOTTOM,
\* 2 = LEFT, 3 = RIGHT) and an offset along it.
FinishCell(border, off) ==
    CASE border = 0 -> <<off, 0>>
      [] border = 1 -> <<off, MAP_HEIGHT - 1>>
      [] border = 2 -> <<0, off>>
      [] OTHER      -> <<MAP_WIDTH - 1, off>>

\* Mutant: the BOTTOM branch keeps the TOP branch's row (a copied line).
OpenedCellCopied(border, off) ==
    CASE border = 0 -> <<off, 0 + 1>>
      [] border = 1 -> <<off, 0 + 1>>
      [] border = 2 -> <<0 + 1, off>>
      [] OTHER      -> <<(MAP_WIDTH - 1) - 1, off>>

\* The cell placeRandomFinish sets to 0 for that finish cell.
OpenedCell(border, off) ==
    CASE border = 0 -> <<off, 0 + 1>>
      [] border = 1 -> <<off, (MAP_HEIGHT - 1) - 1>>
      [] border = 2 -> <<0 + 1, off>>
      [] OTHER      -> <<(MAP_WIDTH - 1) - 1, off>>

\* Mutant: the distributions run over the whole border, corners included.
OffsetsWithCorners(border) ==
    IF border \in {0, 1} THEN 0 .. (MAP_WIDTH - 1) ELSE 0 .. (MAP_HEIGHT - 1)

\* The offsets colDist / rowDist draw for a border.
Offsets(border) ==
    IF border \in {0, 1} THEN 1 .. (MAP_WIDTH - 2) ELSE 1 .. (MAP_HEIGHT - 2)

\* Mutant: the finish cell is set but the passage next to it is not opened.
placeRandomFinishNoOpen(m, border, off) ==
    LET f == FinishCell(border, off)
    IN SetCell(m, f[1], f[2], 2)

placeRandomFinish(m, border, off) ==
    LET o == OpenedCell(border, off)
        f == FinishCell(border, off)
    IN SetCell(SetCell(m, o[1], o[2], 0), f[1], f[2], 2)

PlaceFinish ==
    /\ pc = "carved"
    /\ FinishCompiled(build)
    /\ \E border \in 0..3 : \E off \in Offsets(border) :
         /\ gameMap' = placeRandomFinish(gameMap, border, off)
         /\ finish' = FinishCell(border, off)
    /\ pc' = "genDone"
    /\ UNCHANGED <<poseVars, screenVars, build, stack, caller, trackVars, loopVars>>

\* v1: gameMap[finishY][finishX] = 2.
MarkFinishV1 ==
    /\ pc = "carved"
    /\ build.variant = "v1"
    /\ gameMap' = SetCell(gameMap, finishX, finishY, 2)
    /\ finish' = <<finishX, finishY>>
    /\ pc' = "genDone"
    /\ UNCHANGED <<poseVars, screenVars, build, stack, caller, trackVars, loopVars>>

\* A threshold-only build of raycast_maze.cpp / the sdl2-only file: no finish.
ReturnWithoutFinish ==
    /\ pc = "carved"
    /\ build.variant # "v1"
    /\ ~ FinishCompiled(build)
    /\ pc' = "genDone"
    /\ UNCHANGED <<poseVars, screenVars, build, gameMap, stack, finish, caller, trackVars, loopVars>>

\* generateMaze called again on whatever grid the last call left.
Regenerate ==
    /\ pc = "genDone"
    /\ pc' = "genStart"
    /\ UNCHANGED <<poseVars, screenVars, build, gameMap, stack, finish, caller, trackVars, loopVars>>


-----------------------------------------------------------------------------
(* Graph view of a grid: cells under 4-adjacency *)

EmptyCells(m) == { c \in Cells : m[c[2]][c[1]] = 0 }

PassableCells(m) == { c \in Cells : m[c[2]][c[1]] \in {0, 2} }

FinishCells(m) == { c \in Cells : m[c[2]][c[1]] = 2 }

BorderCells ==
    { c \in Cells : c[1] = 0 \/ c[1] = MAP_WIDTH - 1 \/ c[2] = 0 \/ c[2] = MAP_HEIGHT - 1 }

Adjacent4(c) ==
    { <<c[1] + 1, c[2]>>, <<c[1] - 1, c[2]>>, <<c[1], c[2] + 1>>, <<c[1], c[2] - 1>> }

RECURSIVE Flood(_, _, _)
Flood(S, seen, frontier) ==
    IF frontier = {} THEN seen
    ELSE LET next == { d \in S \ seen : \E c \in frontier : d \in Adjacent4(c) }
         IN Flood(S, seen \cup next, next)

\* The cells of S a flood-fill from start reaches.
FloodFill(S, start) == IF start \in S THEN Flood(S, {start}, {start}) ELSE {}

\* Number of adjacent pairs inside S (each counted once).
NumEdges(S) ==
    Cardinality({ c \in S : <<c[1] + 1, c[2]>> \in S })
    + Cardinality({ c \in S : <<c[1], c[2] + 1>> \in S })

RECURSIVE NumComponents(_)
NumComponents(S) ==
    IF S = {} THEN 0
    ELSE LET c == CHOOSE x \in S : TRUE
         IN 1 + NumComponents(S \ FloodFill(S, c))

\* Number of independent cycles of S.
Cyclomatic(S) == NumEdges(S) - Cardinality(S) + NumComponents(S)

\* The chambers: the cells +/-2 steps from (1,1) strictly inside the border.
LatticeCells ==
    { c \in Cells : /\ c[1] % 2 = 1 /\ c[2] % 2 = 1
                    /\ c[1] < MAP_WIDTH - 1 /\ c[2] < MAP_HEIGHT - 1 }

\* The interior cell one step inward from a border cell f (not a corner).
Inward(f) ==
    IF f[2] = 0 THEN <<f[1], 1>>
    ELSE IF f[2] = MAP_HEIGHT - 1 THEN <<f[1], MAP_HEIGHT - 2>>
    ELSE IF f[1] = 0 THEN <<1, f[2]>>
    ELSE <<MAP_WIDTH - 2, f[2]>>

Returned == pc = "genDone"

\* The builds whose generateMaze ends in placeRandomFinish (when compiled in).
RandomFinishVariant == build.variant \in {"multi", "sdl2"}

-----------------------------------------------------------------------------
(* Claims about generateMaze / placeRandomFinish *)

\* C1: in every grid generateMaze() of raycast_maze.cpp returns, a flood-fill
\* over Empty cells from (1,1) reaches every Empty cell.
C1_Connectivity ==
    (Returned /\ RandomFinishVariant)
        => FloodFill(EmptyCells(gameMap), <<1, 1>>) = EmptyCells(gameMap)

\* C2: whenever placeRandomFinish places a Finish cell, it is connected to
\* (1,1) by a path of 4-adjacent passable cells.
C2_FinishReachable ==
    (Returned /\ RandomFinishVariant /\ FinishCompiled(build))
        => finish \in FloodFill(PassableCells(gameMap), <<1, 1>>)

\* C3: after generateMaze() every border cell is Wall, except that with finish
\* placement enabled exactly one border cell is Finish and no other cell of the
\* grid is Finish; with finish placement disabled the whole border is Wall.
C3_BorderInvariant ==
    (Returned /\ RandomFinishVariant)
        => IF FinishCompiled(build)
           THEN /\ finish \in BorderCells
                /\ FinishCells(gameMap) = {finish}
                /\ \A c \in BorderCells \ {finish} : gameMap[c[2]][c[1]] = 1
           ELSE /\ FinishCells(gameMap) = {}
                /\ \A c \in BorderCells : gameMap[c[2]][c[1]] = 1

C3_Witness ==
    /\ Returned /\ build.variant = "multi" /\ FinishCompiled(build)
    /\ finish = <<MAP_WIDTH - 1, 2>>
    /\ gameMap[2][MAP_WIDTH - 1] = 2

\* C4: for every border and offset choice, the interior cell one step inward
\* from the Finish cell is passable when generateMaze() returns.
C4_ApproachPassable ==
    (Returned /\ FinishCompiled(build))
        => gameMap[Inward(finish)[2]][Inward(finish)[1]] \in {0, 2}

C4_Witness ==
    /\ Returned /\ build.variant = "sdl2" /\ FinishCompiled(build)
    /\ finish = <<2, MAP_HEIGHT - 1>>
    /\ gameMap[MAP_HEIGHT - 2][2] = 0

\* C5: after the backtracking loop and the border re-assertion (before any
\* finish placement) the Empty cells are a spanning tree: every lattice cell
\* is Empty, the Empty cells are connected, and there is no cycle.
C5_PerfectMaze ==
    (pc = "carved")
        => /\ LatticeCells \subseteq EmptyCells(gameMap)
           /\ FloodFill(EmptyCells(gameMap), <<1, 1>>) = EmptyCells(gameMap)
           /\ NumEdges(EmptyCells(gameMap)) = Cardinality(EmptyCells(gameMap)) - 1

C5_Witness ==
    /\ pc = "carved"
    /\ build.variant = "v1"
    /\ gameMap[MAP_HEIGHT - 3][MAP_WIDTH - 3] = 0
    /\ gameMap[1][2] = 1

\* C6 as claimed: with finish placement enabled the returned grid has no
\* cycle among its passable cells, for every border/offset choice.
C6_NoCycleAfterFinish ==
    (Returned /\ RandomFinishVariant /\ FinishCompiled(build))
        => Cyclomatic(PassableCells(gameMap)) = 0

\* The finish is on the TOP or LEFT border at an even offset whose opened
\* cell lies between two lattice cells.
OpensBetweenChambers(f) ==
    \/ f[2] = 0 /\ f[1] % 2 = 0 /\ f[1] <= MAP_WIDTH - 4
    \/ f[1] = 0 /\ f[2] % 2 = 0 /\ f[2] <= MAP_HEIGHT - 4

\* C6 amended: the passable cells of the returned grid contain at most one
\* cycle, and none unless the finish is on the TOP or LEFT border at an even
\* offset, where the forced-open cell joins two carved lattice cells.
C6_AtMostOneCycle ==
    (Returned /\ RandomFinishVariant /\ FinishCompiled(build))
        => /\ Cyclomatic(PassableCells(gameMap)) <= 1
           /\ ~ OpensBetweenChambers(finish)
                 => Cyclomatic(PassableCells(gameMap)) = 0

C6_Witness ==
    /\ Returned /\ build.variant = "multi" /\ FinishCompiled(build)
    /\ finish = <<2, 0>>
    /\ Cyclomatic(PassableCells(gameMap)) = 1

\* Lattice cells still Wall, counted twice, plus the stack's length: what
\* every turn of while (!stack.empty()) lowers.
Uncarved(m) == { c \in LatticeCells : m[c[2]][c[1]] = 1 }

Measure(m, s) == 2 * Cardinality(Uncarved(m)) + Len(s)

\* The step is a push of the loop (the stack grew by one entry).
Pushes == pc = "carve" /\ pc' = "carve" /\ Len(stack') = Len(stack) + 1

\* C21: the stack loop of generateMaze() terminates with an empty stack for
\* every sequence of choices (each turn lowers Measure, which is never
\* negative, and the loop is left only with the stack empty); a cell is
\* pushed only while it is still Wall and is Empty from then on, so each
\* lattice cell is pushed at most once; the stack holds distinct lattice
\* cells, never more than there are.
C21_GeneratorTerminates ==
    [][ /\ (pc = "carve" /\ pc' = "carve") =>
              /\ Measure(gameMap', stack') < Measure(gameMap, stack)
              /\ Measure(gameMap', stack') >= 0
              /\ \A c \in LatticeCells :
                    gameMap[c[2]][c[1]] = 0 => gameMap'[c[2]][c[1]] = 0
              /\ Pushes =>
                    LET n == stack'[Len(stack')]
                    IN /\ n \in LatticeCells
                       /\ gameMap[n[2]][n[1]] = 1
                       /\ gameMap'[n[2]][n[1]] = 0
        /\ pc' = "carve" =>
              /\ Len(stack') <= Cardinality(LatticeCells)
              /\ \A i, j \in 1 .. Len(stack') : stack'[i] = stack'[j] => i = j
        /\ pc' = "carved" => stack' = << >> ]_vars

\* Every lattice cell is on the stack at once (a path without a branch).
C21_Witness ==
    /\ pc = "carve"
    /\ Len(stack) = Cardinality(LatticeCells)
    /\ Uncarved(gameMap) = {}

\* The cell a push opened between the old top and the new one.
Connector == CHOOSE c \in Cells :
    /\ gameMap[c[2]][c[1]] = 1
    /\ gameMap'[c[2]][c[1]] = 0
    /\ c # stack'[Len(stack')]

\* C22 as stated: every cell the generator pushes (the start cell and every
\* chosen neighbour) has an even column and an even row, and the connecting
\* cell carved with it lies at the odd coordinate between on the stepped axis.
C22_EvenLattice ==
    [][ (pc' = "carve" /\ (pc = "genStart" \/ Pushes)) =>
          LET n == stack'[Len(stack')]
          IN /\ n[1] % 2 = 0 /\ n[2] % 2 = 0
             /\ Pushes =>
                  LET t == stack[Len(stack)]
                  IN IF n[1] # t[1]
                     THEN Connector[1] % 2 = 1 /\ Connector[2] = n[2]
                     ELSE Connector[2] % 2 = 1 /\ Connector[1] = n[1] ]_vars

\* C22, amended: every pushed cell has an odd column and an odd row (the
\* lattice starts at (1,1) and steps by 2), and the connecting cell lies at
\* the even coordinate between the two chambers on the stepped axis, with the
\* other coordinate unchanged.
C22_OddLattice ==
    [][ (pc' = "carve" /\ (pc = "genStart" \/ Pushes)) =>
          LET n == stack'[Len(stack')]
          IN /\ n[1] % 2 = 1 /\ n[2] % 2 = 1
             /\ Pushes =>
                  LET t == stack[Len(stack)]
                  IN IF n[1] # t[1]
                     THEN /\ Connector[1] % 2 = 0
                          /\ 2 * Connector[1] = n[1] + t[1]
                          /\ Connector[2] = n[2] /\ n[2] = t[2]
                     ELSE /\ Connector[2] % 2 = 0
                          /\ 2 * Connector[2] = n[2] + t[2]
                          /\ Connector[1] = n[1] /\ n[1] = t[1] ]_vars

\* Two pushes, along X and then along Y, with their connectors open.
C22_Witness ==
    /\ pc = "carve"
    /\ stack = << <<1, 1>>, <<3, 1>>, <<3, 3>> >>
    /\ gameMap[1][2] = 0
    /\ gameMap[2][3] = 0


-----------------------------------------------------------------------------
(* Positions: the source's doubles as fixed-point integers *)

\* Units per cell.
Scale == 100

\* 1.5: the spawn coordinate (both axes).
Spawn == Scale + Scale \div 2

\* planeY at the spawn: (fullscreen ? 1.0 : 0.66).
SpawnPlaneY(fs) == IF fs THEN Scale ELSE (66 * Scale) \div 100

\* The screen, scaled down: the widest and the tallest surface considered.
MaxScreenWidth == 3

MaxScreenHeight == 5

\* -windowed gives 640 x 480, an even height; fullscreen takes whatever the
\* desktop display mode reports.
WindowedHeight == 2 * (MaxScreenHeight \div 2)

\* Facing, camera plane and screen as main sets them up, nothing rendered yet.
StartView ==
    /\ dirX = Scale
    /\ dirY = 0
    /\ planeX = 0
    /\ planeY = SpawnPlaneY(fullscreen)
    /\ screenWidth = MaxScreenWidth
    /\ screenHeight = IF fullscreen THEN MaxScreenHeight ELSE WindowedHeight
    /\ frame = {}
    /\ rays = << >>

\* static_cast<int>(double): truncation toward zero.
Trunc(p) == IF p >= 0 THEN p \div Scale ELSE -((-p) \div Scale)

InGrid(cellX, cellY) ==
    /\ cellX >= 0 /\ cellX < MAP_WIDTH
    /\ cellY >= 0 /\ cellY < MAP_HEIGHT

-----------------------------------------------------------------------------
(* Exploration tracking: initVisited / updateVisited *)

NoneVisited == [y \in Rows |-> [x \in Cols |-> FALSE]]

VisitedSet(v) == { c \in Cells : v[c[2]][c[1]] }

\* A tracker state.
Tracker(v, n, o) == [visited |-> v, count |-> n, oob |-> o]

\* Mutant: the test of the entry is lost, every call counts.
MarkAlways(t, cellX, cellY) ==
    Tracker([t.visited EXCEPT ![cellY][cellX] = TRUE], t.count + 1, t.oob)

\* if (!visitedCells[cellY][cellX]) { visitedCells[cellY][cellX] = true; ++distinctVisited; }
Mark(t, cellX, cellY) ==
    IF ~ t.visited[cellY][cellX]
    THEN Tracker([t.visited EXCEPT ![cellY][cellX] = TRUE], t.count + 1, t.oob)
    ELSE t

\* raycast_maze.cpp and the sdl2-only file: the bounds-checked updateVisited.
\* The result is a set (of one outcome).
updateVisitedChecked(t, px, py) ==
    LET cellX == Trunc(px)
        cellY == Trunc(py)
    IN IF InGrid(cellX, cellY) THEN {Mark(t, cellX, cellY)} ELSE {t}

\* raycast_maze-v1.cpp: no bounds check.  An index outside the array is
\* undefined behaviour; the outcomes modelled are those of a flat row-major
\* array: an index whose flat offset falls inside the array aliases another
\* entry, any other reads a byte outside the array (either value) and, when
\* it reads false, writes it and counts.
updateVisitedV1(t, px, py) ==
    LET cellX == Trunc(px)
        cellY == Trunc(py)
        flat  == cellY * MAP_WIDTH + cellX
    IN IF InGrid(cellX, cellY) THEN {Mark(t, cellX, cellY)}
       ELSE IF flat >= 0 /\ flat < MAP_WIDTH * MAP_HEIGHT
       THEN {Mark(t, flat % MAP_WIDTH, flat \div MAP_WIDTH)}
       ELSE { Tracker(t.visited, t.count, TRUE),
              Tracker(t.visited, t.count + 1, TRUE) }

updateVisited(b, t, px, py) ==
    IF b.variant = "v1" THEN updateVisitedV1(t, px, py)
    ELSE updateVisitedChecked(t, px, py)

\* Mutant: the bitmap is cleared but distinctVisited is not reset.
initVisitedKeepCount(t) == Tracker(NoneVisited, t.count, t.oob)

initVisited(t) == Tracker(NoneVisited, 0, t.oob)

Now == Tracker(visitedCells, distinctVisited, oob)

SetTracker(t) ==
    /\ visitedCells' = t.visited
    /\ distinctVisited' = t.count
    /\ oob' = t.oob

\* The calls of the tracker's harness.
MaxCalls == 4

\* Positions handed to updateVisited: three cells of the grid, a position
\* left of the grid that truncates to column 0, and positions whose cell is
\* outside the grid on each side.
TrackPositions ==
    { <<Spawn, Spawn>>, <<Spawn + Scale, Spawn>>, <<Spawn, Spawn + Scale>>,
      <<-(Scale \div 2), Spawn>>,
      <<-Spawn, Spawn>>, <<Spawn, -Spawn>>,
      <<MAP_WIDTH * Scale + Scale \div 2, Spawn>>,
      <<Spawn, MAP_HEIGHT * Scale + Scale \div 2>> }

CallInitVisited ==
    /\ pc = "tracker"
    /\ calls < MaxCalls
    /\ SetTracker(initVisited(Now))
    /\ lastOp' = "initVisited"
    /\ calls' = calls + 1
    /\ UNCHANGED <<poseVars, screenVars, build, genVars, pc, caller, posX, posY, appFocused, quitApp>>

CallUpdateVisited ==
    /\ pc = "tracker"
    /\ calls < MaxCalls
    /\ \E p \in TrackPositions :
         /\ posX' = p[1]
         /\ posY' = p[2]
         /\ \E t \in updateVisited(build, Now, p[1], p[2]) : SetTracker(t)
    /\ lastOp' = "updateVisited"
    /\ calls' = calls + 1
    /\ UNCHANGED <<poseVars, screenVars, build, genVars, pc, caller, appFocused, quitApp>>

\* The tracker on its own: the globals as the program starts (zero-initialised
\* bitmap and count), then any sequence of calls.
VisitInit ==
    /\ build \in { b \in Builds : b.flags = {} }
    /\ gameMap = [y \in Rows |-> [x \in Cols |-> 0]]
    /\ stack = << >>
    /\ finish = <<-1, -1>>
    /\ pc = "tracker"
    /\ caller = "startup"
    /\ visitedCells = NoneVisited
    /\ distinctVisited = 0
    /\ oob = FALSE
    /\ posX = Spawn
    /\ posY = Spawn
    /\ lastOp = "none"
    /\ calls = 0
    /\ appFocused = TRUE
    /\ quitApp = FALSE
    /\ fullscreen = TRUE
    /\ StartView

VisitNext ==
    \/ CallInitVisited
    \/ CallUpdateVisited

SpecVisit == VisitInit /\ [][VisitNext]_vars

\* The cell updateVisited computes for the position of the step's call.
ArgCellX == Trunc(posX')

ArgCellY == Trunc(posY')

\* C7: updateVisited, in all three variants: an in-grid, unmarked cell is
\* marked and the count grows by exactly 1; an out-of-grid or already marked
\* cell leaves bitmap and count unchanged and touches no memory outside the
\* bitmap.
C7_RecordVisitContract ==
    [][ lastOp' = "updateVisited" =>
          IF InGrid(ArgCellX, ArgCellY) /\ ~ visitedCells[ArgCellY][ArgCellX]
          THEN /\ visitedCells' = [visitedCells EXCEPT ![ArgCellY][ArgCellX] = TRUE]
               /\ distinctVisited' = distinctVisited + 1
               /\ oob' = oob
          ELSE /\ visitedCells' = visitedCells
               /\ distinctVisited' = distinctVisited
               /\ oob' = FALSE ]_vars

\* C8: after any sequence of initVisited() and updateVisited() calls of
\* raycast_maze.cpp (and the sdl2-only file), distinctVisited is the number
\* of true entries of visitedCells.
C8_CountIsMarked ==
    (build.variant # "v1")
        => distinctVisited = Cardinality(VisitedSet(visitedCells))

C8_Witness ==
    /\ build.variant = "multi"
    /\ pc = "tracker"
    /\ lastOp = "updateVisited"
    /\ calls = MaxCalls
    /\ posX = Spawn /\ posY = Spawn
    /\ distinctVisited = 2
    /\ visitedCells[1][1] /\ visitedCells[1][2]

\* C9: an updateVisited() call never lowers distinctVisited and raises it by
\* at most 1; only initVisited() lowers it, and right after initVisited() it
\* is exactly 0.
C9_Monotone ==
    [][ (build.variant # "v1") =>
          /\ lastOp' = "updateVisited" =>
                distinctVisited' \in {distinctVisited, distinctVisited + 1}
          /\ lastOp' = "initVisited" => distinctVisited' = 0
          /\ distinctVisited' < distinctVisited => lastOp' = "initVisited" ]_vars

\* initVisited has run after two cells were marked: the count is back to 0
\* and the cell of the last recorded position is unmarked again.
C9_Witness ==
    /\ build.variant = "multi"
    /\ pc = "tracker"
    /\ lastOp = "initVisited"
    /\ calls = 3
    /\ posX = Spawn + Scale /\ posY = Spawn
    /\ distinctVisited = 0
    /\ ~ visitedCells[1][2]


-----------------------------------------------------------------------------
(* Accessor, finish condition, collision resolution *)

getCell(m, x, y) ==
    IF x < 0 \/ x >= MAP_WIDTH \/ y < 0 \/ y >= MAP_HEIGHT THEN 1 ELSE m[y][x]

checkWin(m, px, py) == getCell(m, Trunc(px), Trunc(py)) = 2

\* const double hitbox = 0.2
hitbox == Scale \div 5

Max(a, b) == IF a >= b THEN a ELSE b

Min(a, b) == IF a <= b THEN a ELSE b

\* std::floor / std::ceil of a fixed-point value, as a cell index.
Floor(p) == p \div Scale

Ceil(p) == -((-p) \div Scale)

\* Integer square root, and division rounded to nearest: the fixed-point
\* stand-ins for std::sqrt and for the double division of the push.
RECURSIVE SqrtSearch(_, _, _)
SqrtSearch(n, lo, hi) ==
    IF lo >= hi THEN lo
    ELSE LET mid == (lo + hi + 1) \div 2
         IN IF mid * mid <= n THEN SqrtSearch(n, mid, hi)
            ELSE SqrtSearch(n, lo, mid - 1)

\* Used for n < (hitbox * 100)^2 only.
Isqrt(n) == SqrtSearch(n, 0, hitbox * 100)

RoundDiv(a, b) == (2 * a + b) \div (2 * b)

\* What resolveCircleCollision treats as an obstacle: v1 every non-empty
\* cell (getCell != 0), the other two only walls (getCell == 1).
IsObstacle(b, v) == IF b.variant = "v1" THEN v # 0 ELSE v = 1

\* Mutant: the fallback pushes along X.
ZeroDistancePushAlongX(p) == <<p[1] - hitbox, p[2]>>

\* if (dist == 0) posY -= pen, with pen = hitbox - 0.
ZeroDistancePush(p) == <<p[1], p[2] - hitbox>>

\* The body of the two nested loops for one cell (cx, cy): the position after
\* the push, if any.  dist is kept with two more digits than a position.
PushOut(b, m, p, cx, cy) ==
    IF ~ IsObstacle(b, getCell(m, cx, cy)) THEN p
    ELSE LET closestX == Max(cx * Scale, Min(p[1], (cx + 1) * Scale))
             closestY == Max(cy * Scale, Min(p[2], (cy + 1) * Scale))
             distX == p[1] - closestX
             distY == p[2] - closestY
             distSq == distX * distX + distY * distY
         IN IF distSq < hitbox * hitbox
            THEN IF distSq = 0
                 THEN ZeroDistancePush(p)
                 ELSE LET dist100 == Isqrt(distSq * 10000)
                          pen100  == hitbox * 100 - dist100
                      IN <<p[1] + RoundDiv(distX * pen100, dist100),
                           p[2] + RoundDiv(distY * pen100, dist100)>>
            ELSE p

\* for (cx = from; cx <= endX; ++cx) of one row.
RECURSIVE ScanRow(_, _, _, _, _, _)
ScanRow(b, m, p, cx, endX, cy) ==
    IF cx > endX THEN p
    ELSE ScanRow(b, m, PushOut(b, m, p, cx, cy), cx + 1, endX, cy)

\* for (cy = from; cy <= endY; ++cy).
RECURSIVE ScanRows(_, _, _, _, _, _, _)
ScanRows(b, m, p, startX, endX, cy, endY) ==
    IF cy > endY THEN p
    ELSE ScanRows(b, m, ScanRow(b, m, p, startX, endX, cy), startX, endX, cy + 1, endY)

resolveCircleCollision(b, m, p) ==
    LET startX == Max(0, Floor(p[1] - hitbox))
        endX   == Min(MAP_WIDTH - 1, Ceil(p[1] + hitbox))
        startY == Max(0, Floor(p[2] - hitbox))
        endY   == Min(MAP_HEIGHT - 1, Ceil(p[2] + hitbox))
    IN ScanRows(b, m, p, startX, endX, startY, endY)

updatePlayerPosition(b, m, p, dx, dy) ==
    resolveCircleCollision(b, m, <<p[1] + dx, p[2] + dy>>)

-----------------------------------------------------------------------------
(* The resolver on its own *)

\* Squared distance from p to the closest point of the unit square of cell
\* (cx, cy), and whether the player's circle at p overlaps that square.
ClosestDistSq(p, cx, cy) ==
    LET closestX == Max(cx * Scale, Min(p[1], (cx + 1) * Scale))
        closestY == Max(cy * Scale, Min(p[2], (cy + 1) * Scale))
    IN (p[1] - closestX) * (p[1] - closestX) + (p[2] - closestY) * (p[2] - closestY)

CircleOverlaps(p, cx, cy) == ClosestDistSq(p, cx, cy) < hitbox * hitbox

WallsOverlapped(m, p) ==
    { c \in Cells : m[c[2]][c[1]] = 1 /\ CircleOverlaps(p, c[1], c[2]) }

\* Wall configurations handed to the resolver: a walled border around an
\* open interior, one Finish cell (interior as in v1, or on the border as
\* placeRandomFinish puts it) and one more Wall cell beside it.
OpenRoom ==
    [y \in Rows |-> [x \in Cols |->
        IF x = 0 \/ y = 0 \/ x = MAP_WIDTH - 1 \/ y = MAP_HEIGHT - 1 THEN 1 ELSE 0]]

FinishSpots == { <<2, 2>>, <<0, 2>> }

WallSpots == { <<3, 2>>, <<2, 3>> }

ResolveGrids ==
    { SetCell(SetCell(OpenRoom, f[1], f[2], 2), w[1], w[2], 1) :
        f \in FinishSpots, w \in WallSpots }

\* Positions handed to the resolver: a lattice of tenths of a cell over the
\* cells around the two spots.
Tenth == Scale \div 10

ResolveCoords == { k * Tenth : k \in 5 .. 35 }

\* Applications of updatePlayerPosition per walk.
MaxWalk == 2

\* Displacements of a walk: a tenth of a cell along each axis and diagonally
\* (shorter than hitbox), and one whole cell (a long frame).
WalkDisps ==
    { <<Tenth, 0>>, <<-Tenth, 0>>, <<0, Tenth>>, <<0, -Tenth>>,
      <<-Tenth, -Tenth>>, <<-Scale, 0>> }

CallResolve ==
    /\ pc = "placed"
    /\ LET p == resolveCircleCollision(build, gameMap, <<posX, posY>>)
       IN /\ posX' = p[1]
          /\ posY' = p[2]
    /\ lastOp' = "resolveCircleCollision"
    /\ pc' = "resolved"
    /\ UNCHANGED <<poseVars, screenVars, build, genVars, caller, trackVars, calls, appFocused, quitApp>>

CallUpdatePlayerPosition ==
    /\ \/ pc = "placed" /\ WallsOverlapped(gameMap, <<posX, posY>>) = {}
       \/ pc = "walked"
    /\ calls < MaxWalk
    /\ \E d \in WalkDisps :
         LET p == updatePlayerPosition(build, gameMap, <<posX, posY>>, d[1], d[2])
         IN /\ posX' = p[1]
            /\ posY' = p[2]
    /\ lastOp' = "updatePlayerPosition"
    /\ calls' = calls + 1
    /\ pc' = "walked"
    /\ UNCHANGED <<poseVars, screenVars, build, genVars, caller, trackVars, appFocused, quitApp>>

ResolveInit ==
    /\ build \in { b \in Builds : b.flags = {} }
    /\ gameMap \in ResolveGrids
    /\ stack = << >>
    /\ finish = <<-1, -1>>
    /\ pc = "placed"
    /\ caller = "startup"
    /\ visitedCells = NoneVisited
    /\ distinctVisited = 0
    /\ oob = FALSE
    /\ posX \in ResolveCoords
    /\ posY \in ResolveCoords
    /\ lastOp = "none"
    /\ calls = 0
    /\ appFocused = TRUE
    /\ quitApp = FALSE
    /\ fullscreen = TRUE
    /\ StartView

ResolveNext ==
    \/ CallResolve
    \/ CallUpdatePlayerPosition

SpecResolve == ResolveInit /\ [][ResolveNext]_vars

\* C11: in all three variants, a resolveCircleCollision call whose circle
\* overlaps no Wall cell returns the position unchanged, also when the circle
\* overlaps or lies inside a Finish cell.
C11_PassableNeverPushes ==
    [][ (pc = "placed" /\ pc' = "resolved"
            /\ WallsOverlapped(gameMap, <<posX, posY>>) = {})
          => (posX' = posX /\ posY' = posY) ]_vars

\* The tolerance of the containment claim.
Epsilon == Scale \div 50

\* C12: in raycast_maze.cpp, from a start clear of every wall, every
\* updatePlayerPosition whose displaced circle overlaps a Wall cell ends at a
\* position whose distance to that cell is at least
\* hitbox - Epsilon.
C12_CollisionContainment ==
    [][ (build.variant = "multi" /\ pc' = "walked") =>
          \A d \in WalkDisps :
            (<<posX', posY'>> =
                updatePlayerPosition(build, gameMap, <<posX, posY>>, d[1], d[2]))
              => \A c \in WallsOverlapped(gameMap, <<posX + d[1], posY + d[2]>>) :
                    ClosestDistSq(<<posX', posY'>>, c[1], c[2])
                        >= (hitbox - Epsilon) * (hitbox - Epsilon) ]_vars

\* The cells of the two nested loops in the order they are visited from a
\* position p, and the position after the first i of them.
ScanOrder(p) ==
    LET startX == Max(0, Floor(p[1] - hitbox))
        endX   == Min(MAP_WIDTH - 1, Ceil(p[1] + hitbox))
        startY == Max(0, Floor(p[2] - hitbox))
        endY   == Min(MAP_HEIGHT - 1, Ceil(p[2] + hitbox))
        w      == endX - startX + 1
    IN [k \in 1 .. w * (endY - startY + 1) |->
            <<startX + ((k - 1) % w), startY + ((k - 1) \div w)>>]

RECURSIVE ScanPrefix(_, _, _, _, _)
ScanPrefix(b, m, p, order, i) ==
    IF i = 0 THEN p
    ELSE LET q == ScanPrefix(b, m, p, order, i - 1)
         IN PushOut(b, m, q, order[i][1], order[i][2])

\* The position handed to resolveCircleCollision by the step taken: the
\* position itself (CallResolve) or the displaced one.
ResolverInputs ==
    IF pc' = "resolved" THEN { <<posX, posY>> }
    ELSE { <<posX + d[1], posY + d[2]>> : d \in WalkDisps }

\* C23: whenever the scan of resolveCircleCollision comes to a Wall cell
\* whose closest point is the centre itself (distance 0), that cell moves the
\* centre by exactly hitbox towards negative Y and leaves X as it is; a push
\* that divides by the distance has a distance above 0.
C23_ZeroDistanceFallback ==
    [][ (pc' \in {"resolved", "walked"}) =>
          \E p \in ResolverInputs :
            LET order == ScanOrder(p)
            IN /\ <<posX', posY'>> = ScanPrefix(build, gameMap, p, order, Len(order))
               /\ \A i \in 1 .. Len(order) :
                    LET q == ScanPrefix(build, gameMap, p, order, i - 1)
                        r == ScanPrefix(build, gameMap, p, order, i)
                        c == order[i]
                        distSq == ClosestDistSq(q, c[1], c[2])
                    IN /\ (getCell(gameMap, c[1], c[2]) = 1 /\ distSq = 0)
                            => r = <<q[1], q[2] - hitbox>>
                       /\ (IsObstacle(build, getCell(gameMap, c[1], c[2]))
                             /\ distSq > 0 /\ distSq < hitbox * hitbox)
                            => Isqrt(distSq * 10000) > 0 ]_vars

\* A call that started in the middle of Wall cell (0,1): it ends one hitbox
\* higher, still inside that cell, which no other start leads to.
C23_Witness ==
    /\ pc = "resolved"
    /\ getCell(gameMap, 0, 1) = 1
    /\ posX = 5 * Tenth
    /\ posY = 15 * Tenth - hitbox


-----------------------------------------------------------------------------
(* main: the render pass (built without USE_SDL1) *)

TEX_WIDTH == 64

TEX_HEIGHT == 64

Abs(a) == IF a < 0 THEN -a ELSE a

\* (x, y) turned by q quarter turns: the rotation of the event loop for
\* rot = q * pi / 2.
RECURSIVE Rotate(_, _)
Rotate(v, q) == IF q = 0 THEN v ELSE Rotate(<<-v[2], v[1]>>, q - 1)

\* rayDirX and rayDirY of column x, both multiplied by screenWidth so that
\* cameraX = 2x / screenWidth - 1 needs no division.
RayDir(dX, dY, plX, plY, w, x) ==
    <<dX * w + plX * (2 * x - w), dY * w + plY * (2 * x - w)>>

\* sideDistX < sideDistY, for sideDist = n / |rayDir| (n in position units);
\* a zero component has deltaDist 1e30, larger than every other sideDist.
\* Mutant: a tie of the two side distances steps in X.
SideLessOrEqual(nX, rx, nY, ry) ==
    IF rx = 0 THEN FALSE
    ELSE IF ry = 0 THEN TRUE
    ELSE nX * Abs(ry) <= nY * Abs(rx)

SideLess(nX, rx, nY, ry) ==
    IF rx = 0 THEN FALSE
    ELSE IF ry = 0 THEN TRUE
    ELSE nX * Abs(ry) < nY * Abs(rx)

\* Mutant: only a Wall stops the march.
IsHitWallOnly(v) == v = 1

\* if (getCell(mapX, mapY) > 0) hit = 1
IsHit(v) == v > 0

\* while (!hit): one grid line per turn, until getCell(mapX, mapY) > 0.
RECURSIVE DDA(_, _, _, _, _, _, _)
DDA(m, mapX, mapY, nX, nY, rx, ry) ==
    LET inX   == SideLess(nX, rx, nY, ry)
        stepX == IF rx < 0 THEN -1 ELSE 1
        stepY == IF ry < 0 THEN -1 ELSE 1
        mX    == IF inX THEN mapX + stepX ELSE mapX
        mY    == IF inX THEN mapY ELSE mapY + stepY
    IN IF IsHit(getCell(m, mX, mY))
       THEN [mapX |-> mX, mapY |-> mY, side |-> IF inX THEN 0 ELSE 1]
       ELSE DDA(m, mX, mY, IF inX THEN nX + Scale ELSE nX,
                IF inX THEN nY ELSE nY + Scale, rx, ry)

\* Mutant: the mirrored column is TEX_WIDTH - texX, one too far.
TexXNoOffset(fracNum, den, side, rx, ry) ==
    LET texX == (fracNum * TEX_WIDTH) \div den
    IN IF (side = 0 /\ rx > 0) \/ (side = 1 /\ ry < 0)
       THEN TEX_WIDTH - texX
       ELSE texX

\* texX of a hit at the fraction fracNum / den of the wall face.
TexX(fracNum, den, side, rx, ry) ==
    LET texX == (fracNum * TEX_WIDTH) \div den
    IN IF (side = 0 /\ rx > 0) \/ (side = 1 /\ ry < 0)
       THEN TEX_WIDTH - texX - 1
       ELSE texX

\* int / int of C: the quotient truncated toward zero.
CDiv(a, b) == IF a >= 0 THEN a \div b ELSE -((-a) \div b)

IntMax == 2^30 + (2^30 - 1)

\* static_cast<int>(screenHeight / perpWallDist) for perpWallDist == 0: the
\* conversion of an infinite double is undefined; the value is taken from
\* either end of the int range.
IntOfInfinity == {-IntMax, IntMax}

\* Mutant: a drawStart above the screen is kept.
ClampStartNone(start) == start

\* if (drawStart < 0) drawStart = 0
ClampStart(start) == IF start < 0 THEN 0 ELSE start

\* One turn of the raycasting loop, column x.  perpWallDist is the fraction
\* perpNum / perpDen, wallX - floor(wallX) the fraction wallNum / wallDen;
\* inf is what the conversion of an infinite quotient yields, and what the
\* division by a lineHeight of 0 yields (undefined as well).
CastRay(m, px, py, dX, dY, plX, plY, w, h, x, inf) ==
    LET rd    == RayDir(dX, dY, plX, plY, w, x)
        rx    == rd[1]
        ry    == rd[2]
        mapX  == Trunc(px)
        mapY  == Trunc(py)
        nX    == IF rx < 0 THEN px - mapX * Scale ELSE (mapX + 1) * Scale - px
        nY    == IF ry < 0 THEN py - mapY * Scale ELSE (mapY + 1) * Scale - py
        hit   == DDA(m, mapX, mapY, nX, nY, rx, ry)
        reach == IF hit.side = 0
                 THEN Abs((hit.mapX + (IF rx < 0 THEN 1 ELSE 0)) * Scale - px)
                 ELSE Abs((hit.mapY + (IF ry < 0 THEN 1 ELSE 0)) * Scale - py)
        perpNum == reach * w
        perpDen == IF hit.side = 0 THEN Abs(rx) ELSE Abs(ry)
        lineHeight == IF perpNum = 0 THEN inf ELSE (h * perpDen) \div perpNum
        start == CDiv(-lineHeight, 2) + h \div 2
        end   == CDiv(lineHeight, 2) + h \div 2
        drawStart == ClampStart(start)
        texStep == IF lineHeight = 0 THEN inf ELSE CDiv(TEX_HEIGHT * 65536, lineHeight)
        wallDen == Scale * perpDen
        wallNum == IF hit.side = 0
                   THEN (py * perpDen + reach * ry) % wallDen
                   ELSE (px * perpDen + reach * rx) % wallDen
    IN [mapX |-> hit.mapX, mapY |-> hit.mapY, side |-> hit.side,
        rayDirX |-> rx, rayDirY |-> ry,
        perpNum |-> perpNum, perpDen |-> perpDen,
        lineHeight |-> lineHeight,
        drawStart |-> drawStart,
        drawEnd |-> IF end >= h THEN h - 1 ELSE end,
        wallNum |-> wallNum, wallDen |-> wallDen,
        texX |-> TexX(wallNum, wallDen, hit.side, rx, ry),
        texStep |-> texStep,
        texPos |-> (drawStart - h \div 2 + CDiv(lineHeight, 2)) * texStep]

\* SDL_FillRect of {x0, y0, w0, h0}, clipped to the w x h surface.
FillRect(x0, y0, w0, h0, w, h) ==
    { p \in (0 .. (w - 1)) \X (0 .. (h - 1)) :
        /\ p[1] >= x0 /\ p[1] < x0 + w0
        /\ p[2] >= y0 /\ p[2] < y0 + h0 }

\* for (int y = drawStart; y < drawEnd; y++) screenPixels[y * pitch + x] = ...
WallSpan(x, r) == { <<x, y>> : y \in r.drawStart .. (r.drawEnd - 1) }

\* texY of the row written n rows below drawStart:
\* (texPos >> 16) & (TEX_HEIGHT - 1) after n times texPos += texStep.
TexY(r, n) == ((r.texPos + n * r.texStep) \div 65536) % TEX_HEIGHT

\* The rows the wall loop of a column writes, each with its texY.
WallRows(r) ==
    { <<y, TexY(r, y - r.drawStart)>> : y \in r.drawStart .. (r.drawEnd - 1) }

\* The locals of every column, and every pixel the pass writes.
CastRays(m, px, py, dX, dY, plX, plY, w, h, inf) ==
    [x \in 0 .. (w - 1) |-> CastRay(m, px, py, dX, dY, plX, plY, w, h, x, inf)]

RenderedPixels(cols, w, h) ==
    FillRect(0, 0, w, h \div 2, w, h)
        \cup FillRect(0, h \div 2, w, h \div 2, w, h)
        \cup UNION { WallSpan(x, cols[x]) : x \in DOMAIN cols }

\* The render pass on its own.  Grids: one Empty cell (1,1) walled in on all
\* sides (its 3 x 3 corner is the all-Wall-border grid with an Empty centre),
\* and the rooms of the resolver's harness.
WalledCell == SetCell(AllWalls, 1, 1, 0)

RenderGrids == {WalledCell} \cup ResolveGrids

RenderCoords == { Spawn - Scale, Spawn, Spawn - 2 * Tenth, Spawn + Scale + Tenth }

RenderPass ==
    /\ pc = "view"
    /\ \E inf \in IntOfInfinity :
         rays' = CastRays(gameMap, posX, posY, dirX, dirY, planeX, planeY,
                          screenWidth, screenHeight, inf)
    /\ frame' = RenderedPixels(rays', screenWidth, screenHeight)
    /\ lastOp' = "render"
    /\ pc' = "rendered"
    /\ UNCHANGED <<poseVars, fullscreen, screenWidth, screenHeight, build,
                   genVars, caller, trackVars, posX, posY, calls, appFocused,
                   quitApp>>

RenderInit ==
    /\ build = [variant |-> "multi", flags |-> {}]
    /\ gameMap \in RenderGrids
    /\ stack = << >>
    /\ finish = <<-1, -1>>
    /\ pc = "view"
    /\ caller = "startup"
    /\ visitedCells = NoneVisited
    /\ distinctVisited = 0
    /\ oob = FALSE
    /\ posX \in RenderCoords
    /\ posY \in RenderCoords
    /\ lastOp = "none"
    /\ calls = 0
    /\ appFocused = TRUE
    /\ quitApp = FALSE
    /\ fullscreen \in BOOLEAN
    /\ \E q \in 0 .. 3 :
         LET d == Rotate(<<Scale, 0>>, q)
             p == Rotate(<<0, SpawnPlaneY(fullscreen)>>, q)
         IN /\ dirX = d[1] /\ dirY = d[2]
            /\ planeX = p[1] /\ planeY = p[2]
    /\ screenWidth \in 1 .. MaxScreenWidth
    /\ screenHeight \in 1 .. MaxScreenHeight
    /\ frame = {}
    /\ rays = << >>

RenderNext == RenderPass

SpecRender == RenderInit /\ [][RenderNext]_vars

\* The exactness scenario after its render pass: the walled-in cell, the
\* player at (1.5,1.5) facing (1,0), one column.
Scenario ==
    /\ pc = "rendered"
    /\ gameMap = WalledCell
    /\ posX = Spawn /\ posY = Spawn
    /\ dirX = Scale /\ dirY = 0
    /\ planeX = 0 /\ planeY \in {SpawnPlaneY(TRUE), SpawnPlaneY(FALSE)}
    /\ screenWidth = 1

\* perpWallDist of r is 0.5, up to Epsilon.
PerpIsHalf(r) == Abs(2 * r.perpNum - r.perpDen) * Scale <= 2 * Epsilon * r.perpDen

\* C13 as stated: in the scenario the single ray hits map cell (2,1) with
\* perpWallDist = 0.5 and side = 0, with the windowed and with the fullscreen
\* camera plane.
C13_ScenarioHit ==
    Scenario => /\ rays[0].mapX = 2 /\ rays[0].mapY = 1
                /\ rays[0].side = 0
                /\ PerpIsHalf(rays[0])

\* C13, amended: with the windowed plane (0,0.66) the single ray hits map
\* cell (2,1) with side = 0; with the fullscreen plane (0,1.0) it runs along
\* (1,-1), sideDistX equals sideDistY, the loop steps in Y and the hit is map
\* cell (1,0) with side = 1; perpWallDist is 0.5 in both.
C13_ScenarioHitByPlane ==
    Scenario =>
        /\ PerpIsHalf(rays[0])
        /\ IF planeY = SpawnPlaneY(TRUE)
           THEN rays[0].mapX = 1 /\ rays[0].mapY = 0 /\ rays[0].side = 1
           ELSE rays[0].mapX = 2 /\ rays[0].mapY = 1 /\ rays[0].side = 0

C13_Witness ==
    /\ Scenario
    /\ fullscreen
    /\ rays[0].rayDirX = Scale /\ rays[0].rayDirY = -Scale
    /\ rays[0].side = 1

\* C14: the texture column of every ray and the texture column of the ray
\* that reaches the same wall face at the same fractional offset travelling
\* the opposite way are mirror images, U and TEX_WIDTH - 1 - U, and both lie
\* in 0 .. TEX_WIDTH - 1.
C14_TextureMirroring ==
    pc = "rendered" =>
        \A x \in DOMAIN rays :
            LET r == rays[x]
                opposite == TexX(r.wallNum, r.wallDen, r.side,
                                 -r.rayDirX, -r.rayDirY)
            IN /\ r.texX \in 0 .. (TEX_WIDTH - 1)
               /\ opposite \in 0 .. (TEX_WIDTH - 1)
               /\ r.texX + opposite = TEX_WIDTH - 1
               /\ ((r.side = 0 /\ r.rayDirX < 0) \/ (r.side = 1 /\ r.rayDirY > 0))
                    => r.texX = (r.wallNum * TEX_WIDTH) \div r.wallDen

\* A pass with a mirrored column on an X-facing wall next to an unmirrored
\* column on a Y-facing wall, neither in the middle of the texture.
C14_Witness ==
    /\ pc = "rendered"
    /\ \E x, y \in DOMAIN rays :
         /\ rays[x].side = 0 /\ rays[x].rayDirX > 0
         /\ rays[x].texX > TEX_WIDTH \div 2
         /\ rays[y].side = 1 /\ rays[y].rayDirY > 0
         /\ rays[y].texX > TEX_WIDTH \div 2

\* C15: after every render pass, for every screenWidth and screenHeight,
\* every pixel of the buffer has been written by the ceiling fill, the floor
\* fill or a wall span.
C15_FullFrameCoverage ==
    pc = "rendered" =>
        frame = (0 .. (screenWidth - 1)) \X (0 .. (screenHeight - 1))

\* The most steps a march can take before it is off the grid.
MaxSteps == MAP_WIDTH + MAP_HEIGHT

\* The cells the march would step into on its first k turns if nothing
\* stopped it: the stepped path of a ray.
RECURSIVE March(_, _, _, _, _, _, _)
March(mapX, mapY, nX, nY, rx, ry, k) ==
    IF k = 0 THEN << >>
    ELSE LET inX == SideLess(nX, rx, nY, ry)
             mX  == IF inX THEN mapX + (IF rx < 0 THEN -1 ELSE 1) ELSE mapX
             mY  == IF inX THEN mapY ELSE mapY + (IF ry < 0 THEN -1 ELSE 1)
         IN << <<mX, mY>> >> \o
                March(mX, mY, IF inX THEN nX + Scale ELSE nX,
                      IF inX THEN nY ELSE nY + Scale, rx, ry, k - 1)

\* The stepped path of column x from the player's position.
SteppedPath(x) ==
    LET rd   == RayDir(dirX, dirY, planeX, planeY, screenWidth, x)
        mapX == Trunc(posX)
        mapY == Trunc(posY)
        nX   == IF rd[1] < 0 THEN posX - mapX * Scale ELSE (mapX + 1) * Scale - posX
        nY   == IF rd[2] < 0 THEN posY - mapY * Scale ELSE (mapY + 1) * Scale - posY
    IN March(mapX, mapY, nX, nY, rd[1], rd[2], MaxSteps)

\* The number of steps after which column x's march stopped at its hit cell.
HitStep(x) ==
    LET path == SteppedPath(x)
    IN { k \in 1 .. MaxSteps :
           /\ path[k] = <<rays[x].mapX, rays[x].mapY>>
           /\ getCell(gameMap, path[k][1], path[k][2]) > 0
           /\ \A j \in 1 .. (k - 1) : getCell(gameMap, path[j][1], path[j][2]) = 0 }

\* C24: for every column and every position inside the grid the march ends
\* within MaxSteps steps; the cell it ends in is the first cell of the
\* stepped path that is not Empty (Wall, Finish, or off the grid), every cell
\* stepped into before is Empty, and the starting cell is not among the cells
\* tested, whatever it holds.
C24_FirstHit ==
    pc = "rendered" =>
        \A x \in 0 .. (screenWidth - 1) :
            /\ HitStep(x) # {}
            /\ \A k \in HitStep(x) : \A j \in 1 .. k :
                   SteppedPath(x)[j] # <<Trunc(posX), Trunc(posY)>>

\* A pass from inside a Finish cell with a ray that crossed an Empty cell
\* before its hit.
C24_Witness ==
    /\ pc = "rendered"
    /\ getCell(gameMap, Trunc(posX), Trunc(posY)) = 2
    /\ \E x \in 0 .. (screenWidth - 1) : \E k \in HitStep(x) : k >= 2

\* C25: in every column with a positive lineHeight, every row the wall loop
\* writes satisfies 0 <= y < screenHeight (it writes drawStart .. drawEnd - 1,
\* with drawStart >= 0 and drawEnd <= screenHeight - 1), and the texture row
\* used for it is within 0 .. TEX_HEIGHT - 1.
C25_WallSpanOnScreen ==
    pc = "rendered" =>
        \A x \in 0 .. (screenWidth - 1) :
            rays[x].lineHeight > 0 =>
                /\ rays[x].drawStart >= 0
                /\ rays[x].drawEnd <= screenHeight - 1
                /\ \A row \in WallRows(rays[x]) :
                      /\ row[1] >= 0 /\ row[1] < screenHeight
                      /\ row[2] >= 0 /\ row[2] <= TEX_HEIGHT - 1
                      /\ <<x, row[1]>> \in frame

\* A column whose wall is taller than the screen (both ends clamped) and
\* whose rows use different texture rows.
C25_Witness ==
    /\ pc = "rendered"
    /\ \E x \in 0 .. (screenWidth - 1) :
          /\ rays[x].lineHeight > screenHeight
          /\ rays[x].lineHeight < IntMax
          /\ rays[x].drawStart = 0
          /\ rays[x].drawEnd = screenHeight - 1
          /\ \E a, b \in WallRows(rays[x]) : a[2] # b[2] /\ a[2] > 0 /\ b[2] > 0

-----------------------------------------------------------------------------
(* main: the session loop *)

\* constexpr int explorationThreshold = 300, scaled to the model's grid.
explorationThreshold == 2

\* Loop iterations that move the player, per run.
MaxFrames == 2

\* The per-frame displacements (dx, dy) tried: zero, one cell along each
\* axis, and one cell diagonally (a long frame: moveSpeed = 3.0 * frameTime
\* has no upper limit).
Displacements ==
    { <<0, 0>>, <<Scale, 0>>, <<-Scale, 0>>, <<0, Scale>>, <<0, -Scale>>,
      <<Scale, Scale>> }

\* Which win checks a build compiles.
ThresholdCompiled(b) ==
    CASE b.variant = "v1"    -> TRUE
      [] b.variant = "multi" -> "USE_THRESHOLD" \in b.flags
      [] OTHER               -> \/ "USE_THRESHOLD" \in b.flags
                                \/ "USE_FINISH" \notin b.flags
                                \/ "USE_BOTH" \in b.flags

FinishCheckCompiled(b) ==
    CASE b.variant = "multi" -> \/ "USE_FINISH" \in b.flags
                                \/ "USE_BOTH" \in b.flags
                                \/ "USE_THRESHOLD" \notin b.flags
      [] OTHER               -> TRUE

\* Quarter turns a frame's mouse motion may add up to: none, or a half turn.
Turns == {0, 2}

\* Mutant: the plane is always the windowed one.
ResetPoseWindowedPlane(fs) ==
    [posX |-> Spawn, posY |-> Spawn, dirX |-> Scale, dirY |-> 0,
     planeX |-> 0, planeY |-> SpawnPlaneY(FALSE)]

\* posX_player = 1.5; posY_player = 1.5; dirX = 1.0; dirY = 0.0;
\* planeX = 0.0; planeY = (fullscreen ? 1.0 : 0.66);
ResetPose(fs) ==
    [posX |-> Spawn, posY |-> Spawn, dirX |-> Scale, dirY |-> 0,
     planeX |-> 0, planeY |-> SpawnPlaneY(fs)]

SetPose(p) ==
    /\ posX' = p.posX
    /\ posY' = p.posY
    /\ dirX' = p.dirX
    /\ dirY' = p.dirY
    /\ planeX' = p.planeX
    /\ planeY' = p.planeY

\* Mutant: generateMaze() is called without the message box.
OnWinSilent(who) == [pc |-> "genStart", caller |-> who]

\* Where a detected win goes first: the message box, which blocks until it is
\* dismissed; generateMaze() is called after it.
OnWin(who) == [pc |-> "announce", caller |-> who]

\* Startup: generateMaze() has returned; initVisited(); pose at the spawn.
StartupInit ==
    /\ pc = "genDone"
    /\ caller = "startup"
    /\ SetTracker(initVisited(Now))
    /\ SetPose(ResetPose(fullscreen))
    /\ appFocused' = TRUE
    /\ quitApp' = FALSE
    /\ lastOp' = "initVisited"
    /\ pc' = "events"
    /\ UNCHANGED <<screenVars, build, genVars, caller, calls>>

\* Mutant: the game logic runs whether or not the window has the focus.
AfterEventsUngated(focus) == "move"

\* if (appFocused) { game logic } : where the loop goes after the events.
AfterEvents(focus) == IF focus THEN "move" ELSE "render"

\* while (SDL_PollEvent(&event)): focus gained / lost, quit, mouse motion.
PollEvents ==
    /\ pc = "events"
    /\ \E focus \in BOOLEAN, quit \in BOOLEAN, q \in Turns :
         /\ calls < MaxFrames \/ quit
         /\ appFocused' = focus
         /\ quitApp' = quit
         /\ dirX' = Rotate(<<dirX, dirY>>, q)[1]
         /\ dirY' = Rotate(<<dirX, dirY>>, q)[2]
         /\ planeX' = Rotate(<<planeX, planeY>>, q)[1]
         /\ planeY' = Rotate(<<planeX, planeY>>, q)[2]
         /\ pc' = AfterEvents(focus)
    /\ lastOp' = "events"
    /\ caller' = "loop"
    /\ UNCHANGED <<screenVars, build, genVars, trackVars, posX, posY, calls>>

\* if (appFocused) { ...; updatePlayerPosition(posX, posY, dx, dy, hitbox);
Move ==
    /\ pc = "move"
    /\ \E d \in Displacements :
         LET p == updatePlayerPosition(build, gameMap, <<posX, posY>>, d[1], d[2])
         IN /\ posX' = p[1]
            /\ posY' = p[2]
    /\ calls' = calls + 1
    /\ lastOp' = "move"
    /\ pc' = IF ThresholdCompiled(build) THEN "threshold" ELSE "finishCheck"
    /\ UNCHANGED <<poseVars, screenVars, build, genVars, caller, trackVars,
                   appFocused, quitApp>>

\* Mutant: the threshold must be exceeded.
ThresholdReachedAbove(n) == n > explorationThreshold

\* if (distinctVisited >= explorationThreshold)
ThresholdReached(n) == n >= explorationThreshold

\* updateVisited(posX, posY); if (distinctVisited >= explorationThreshold)
\* { message box; generateMaze(); ...
ThresholdBlock ==
    /\ pc = "threshold"
    /\ \E t \in updateVisited(build, Now, posX, posY) :
         /\ SetTracker(t)
         /\ IF ThresholdReached(t.count)
            THEN /\ pc' = OnWin("threshold").pc
                 /\ caller' = OnWin("threshold").caller
            ELSE /\ pc' = "finishCheck"
                 /\ caller' = caller
    /\ lastOp' = "updateVisited"
    /\ UNCHANGED <<poseVars, screenVars, build, genVars, posX, posY, calls,
                   appFocused, quitApp>>

\* if (checkWin(posX, posY)) { message box; generateMaze(); ...
FinishCheck ==
    /\ pc = "finishCheck"
    /\ IF FinishCheckCompiled(build) /\ checkWin(gameMap, posX, posY)
       THEN /\ pc' = OnWin("finish").pc
            /\ caller' = OnWin("finish").caller
       ELSE /\ pc' = "render"
            /\ caller' = caller
    /\ lastOp' = "checkWin"
    /\ UNCHANGED <<poseVars, screenVars, build, genVars, trackVars, posX, posY,
                   calls, appFocused, quitApp>>

\* SDL_ShowSimpleMessageBox returns: the call of generateMaze() follows.
Announce ==
    /\ pc = "announce"
    /\ lastOp' = "announce"
    /\ pc' = "genStart"
    /\ UNCHANGED <<poseVars, screenVars, build, genVars, caller, trackVars,
                   posX, posY, calls, appFocused, quitApp>>

\* ... generateMaze() has returned; pose back at the spawn; initVisited(); }
ResetAfterWin ==
    /\ pc = "genDone"
    /\ caller \in {"threshold", "finish"}
    /\ SetPose(ResetPose(fullscreen))
    /\ SetTracker(initVisited(Now))
    /\ lastOp' = "initVisited"
    /\ pc' = IF caller = "threshold" THEN "finishCheck" ELSE "render"
    /\ UNCHANGED <<screenVars, build, genVars, caller, calls, appFocused, quitApp>>

\* Ceiling / floor fill and the raycasting pass; then the loop condition.
Render ==
    /\ pc = "render"
    /\ \E inf \in IntOfInfinity :
         frame' = RenderedPixels(CastRays(gameMap, posX, posY, dirX, dirY,
                                          planeX, planeY, screenWidth,
                                          screenHeight, inf),
                                 screenWidth, screenHeight)
    /\ lastOp' = "render"
    /\ pc' = IF quitApp THEN "exit" ELSE "events"
    /\ UNCHANGED <<poseVars, fullscreen, screenWidth, screenHeight, rays, build,
                   genVars, caller, trackVars, posX, posY, calls, appFocused,
                   quitApp>>

-----------------------------------------------------------------------------
GenInit ==
    /\ build \in Builds
    /\ gameMap = [y \in Rows |-> [x \in Cols |-> 0]]   \* zero-initialised global
    /\ stack = << >>
    /\ finish = <<-1, -1>>
    /\ pc = "genStart"
    /\ caller = "startup"
    /\ visitedCells = NoneVisited
    /\ distinctVisited = 0
    /\ oob = FALSE
    /\ posX = Spawn
    /\ posY = Spawn
    /\ lastOp = "none"
    /\ calls = 0
    /\ appFocused = TRUE
    /\ quitApp = FALSE
    /\ fullscreen \in BOOLEAN
    /\ StartView

GenNext ==
    \/ GenStart
    \/ CarveStep
    \/ ForceBorders
    \/ PlaceFinish
    \/ MarkFinishV1
    \/ ReturnWithoutFinish
    \/ Regenerate

SpecGen == GenInit /\ [][GenNext]_vars

-----------------------------------------------------------------------------
(* Claims about the session loop *)

\* C10: in every run of the session loop of raycast_maze.cpp, distinctVisited
\* never exceeds the number of passable (Empty or Finish) cells of the current
\* grid: updateVisited is never applied to a position whose cell is Wall.
C10_VisitedArePassable ==
    (build.variant = "multi" /\ pc = "finishCheck" /\ lastOp = "updateVisited")
        => /\ distinctVisited <= Cardinality(PassableCells(gameMap))
           /\ getCell(gameMap, Trunc(posX), Trunc(posY)) # 1
           /\ VisitedSet(visitedCells) \subseteq PassableCells(gameMap)


\* The USE_BOTH build of raycast_maze.cpp (g++ ... -DUSE_BOTH).
UseBothBuild == build.variant = "multi" /\ build.flags = {"USE_BOTH"}

\* generateMaze() has returned with exactly one Finish cell, on the border.
FinishPlaced ==
    /\ finish \in BorderCells
    /\ FinishCells(gameMap) = {finish}

\* C16: in the USE_BOTH build of raycast_maze.cpp both win conditions are
\* active: the generator places a finish cell and entering it regenerates,
\* updateVisited follows every position update, and reaching
\* explorationThreshold distinct cells regenerates.
C16_BothWinConditions ==
    [][ UseBothBuild =>
          /\ pc = "genDone" => FinishPlaced
          /\ lastOp = "move" => lastOp' = "updateVisited"
          /\ (lastOp' = "updateVisited"
                /\ distinctVisited' >= explorationThreshold) => pc' = "announce"
          /\ (lastOp' = "checkWin" /\ checkWin(gameMap, posX, posY))
                => pc' = "announce" ]_vars

\* C17: the flags of raycast_maze-all-sdl2-only.cpp select the win conditions
\* as its header says: no symbol, neither; USE_FINISH, only the finish cell;
\* USE_THRESHOLD, only the threshold; USE_BOTH, both.
C17_FlagsAsDocumented ==
    [][ build.variant = "sdl2" =>
          /\ build.flags = {} =>
                /\ lastOp' # "updateVisited"
                /\ pc' # "announce"
          /\ build.flags = {"USE_FINISH"} =>
                /\ lastOp' # "updateVisited"
                /\ pc' = "announce" => caller' = "finish"
                /\ pc = "genDone" => FinishPlaced
          /\ build.flags = {"USE_THRESHOLD"} =>
                /\ lastOp = "move" => lastOp' = "updateVisited"
                /\ pc' = "announce" => caller' = "threshold"
          /\ build.flags = {"USE_BOTH"} =>
                /\ lastOp = "move" => lastOp' = "updateVisited"
                /\ (lastOp' = "updateVisited"
                      /\ distinctVisited' >= explorationThreshold)
                      => pc' = "announce"
                /\ (lastOp' = "checkWin" /\ checkWin(gameMap, posX, posY))
                      => pc' = "announce"
                /\ pc = "genDone" => FinishPlaced ]_vars

\* A win was detected in the loop iteration under way.
WonThisIteration == caller \in {"threshold", "finish"}

\* C18: when a win fires, the grid is regenerated in full, the pose is back at
\* (1.5,1.5) facing (1,0) with the configured plane, and the visited bitmap
\* and count are cleared, all before the raycasting pass of the same loop
\* iteration: no pass sees the new grid with the old pose or count.
C18_AtomicRegeneration ==
    (pc = "render" /\ WonThisIteration) =>
        /\ stack = << >>
        /\ gameMap[1][1] = 0
        /\ \A c \in BorderCells : gameMap[c[2]][c[1]] # 0
        /\ posX = Spawn /\ posY = Spawn
        /\ dirX = Scale /\ dirY = 0
        /\ planeX = 0 /\ planeY = SpawnPlaneY(fullscreen)
        /\ distinctVisited = 0
        /\ visitedCells = NoneVisited

\* The pass about to run in a fullscreen session whose last iteration allowed
\* reached the threshold.
C18_Witness ==
    /\ pc = "render"
    /\ caller = "threshold"
    /\ calls = MaxFrames
    /\ fullscreen
    /\ planeY = Scale
    /\ lastOp = "checkWin"

\* C19: generateMaze() starts from the same grid whatever the grid, the
\* bitmap and the count were before (all Wall but (1,1), a stack holding
\* (1,1)), so that its result depends on its random choices only; and once it
\* has returned and initVisited() has run, distinctVisited is 0, no cell is
\* marked, and the grid satisfies the border invariant.
C19_IdempotentRegeneration ==
    [][ /\ pc = "genStart" =>
              /\ gameMap' = [y \in Rows |-> [x \in Cols |->
                                IF x = 1 /\ y = 1 THEN 0 ELSE 1]]
              /\ stack' = << <<1, 1>> >>
              /\ finish' = <<-1, -1>>
        /\ (pc = "genDone" /\ build.variant = "multi") =>
              /\ gameMap' = gameMap
              /\ distinctVisited' = 0
              /\ visitedCells' = NoneVisited
              /\ IF FinishCompiled(build)
                 THEN /\ FinishPlaced
                      /\ \A c \in BorderCells \ {finish} : gameMap[c[2]][c[1]] = 1
                 ELSE /\ FinishCells(gameMap) = {}
                      /\ \A c \in BorderCells : gameMap[c[2]][c[1]] = 1 ]_vars

\* A regeneration after a finish win has completed, in a session that had
\* marked a cell before.
C19_Witness ==
    /\ build.variant = "multi"
    /\ pc = "render"
    /\ caller = "finish"
    /\ lastOp = "initVisited"
    /\ calls = MaxFrames
    /\ distinctVisited = 0

BothChecksCompiled == ThresholdCompiled(build) /\ FinishCheckCompiled(build)

\* C26: in a build with both win checks, a loop iteration announces and
\* regenerates at most once (a win is announced only when none was detected
\* before in the iteration); after a threshold win the finish check of the
\* same iteration finds the player at the spawn in cell (1,1), which every
\* generateMaze() call returns Empty, and goes on to the render.
C26_OneRegenerationPerIteration ==
    [][ BothChecksCompiled =>
          /\ (pc # "announce" /\ pc' = "announce") => ~ WonThisIteration
          /\ pc' = "genStart" => WonThisIteration
          /\ pc = "genDone" => gameMap[1][1] = 0
          /\ (pc = "finishCheck" /\ caller = "threshold") =>
                /\ posX = Spawn /\ posY = Spawn
                /\ gameMap[1][1] = 0
                /\ ~ checkWin(gameMap, posX, posY)
                /\ pc' = "render" ]_vars

\* The finish check that follows a threshold win has run and found nothing,
\* in a build whose generator places a Finish cell.
C26_Witness ==
    /\ BothChecksCompiled
    /\ FinishCells(gameMap) # {}
    /\ pc = "render"
    /\ caller = "threshold"
    /\ lastOp = "checkWin"
    /\ posX = Spawn /\ posY = Spawn

C28_UnfocusedFrames ==
    [][ /\ (pc = "events" /\ ~ appFocused') =>
              /\ pc' = "render"
              /\ UNCHANGED <<posX, posY, gameMap, visitedCells, distinctVisited>>
        /\ (pc = "render" /\ ~ appFocused) =>
              /\ lastOp = "events"
              /\ lastOp' = "render"
              /\ pc' \in {"events", "exit"}
              /\ UNCHANGED <<posX, posY, gameMap, visitedCells, distinctVisited>>
              /\ \E inf \in IntOfInfinity :
                   frame' = RenderedPixels(
                       CastRays(gameMap, posX, posY, dirX, dirY, planeX, planeY,
                                screenWidth, screenHeight, inf),
                       screenWidth, screenHeight)
        /\ ~ appFocused' => pc' \in {"events", "render", "exit"} ]_vars

\* An unfocused frame has been rendered, after a frame that moved the player
\* and with the view turned by its mouse motion.
C28_Witness ==
    /\ pc = "events"
    /\ ~ appFocused
    /\ lastOp = "render"
    /\ calls >= 1
    /\ dirX = -Scale
    /\ frame # {}
    /\ caller = "loop"


\* The builds whose sessions are followed: each symbol on its own, no symbol,
\* and raycast_maze.cpp with USE_BOTH and USE_THRESHOLD (its only build that
\* compiles both checks).  The other combinations compile the same checks as
\* -DUSE_BOTH alone.
SessionBuilds ==
    { b \in Builds :
        \/ Cardinality(b.flags) <= 1
        \/ b.variant = "multi" /\ b.flags = {"USE_BOTH", "USE_THRESHOLD"} }

\* The program: startup generation, then the session loop.
Init == GenInit /\ build \in SessionBuilds

Next ==
    \/ GenStart
    \/ CarveStep
    \/ ForceBorders
    \/ PlaceFinish
    \/ MarkFinishV1
    \/ ReturnWithoutFinish
    \/ StartupInit
    \/ PollEvents
    \/ Move
    \/ ThresholdBlock
    \/ FinishCheck
    \/ Announce
    \/ ResetAfterWin
    \/ Render

Spec == Init /\ [][Next]_vars

-----------------------------------------------------------------------------
(* Walks of short steps from the spawn in a generated maze *)

\* Steps per walk.
MaxSmallSteps == 17

\* A double near 0.2 (a displacement below hitbox) resolves 2^-55, a position
\* in [1, 2) only 2^-52: displacements are kept in units Sub times finer than
\* positions, and newX = posX + dx rounds the sum to a position.
Sub == 8

\* posX + dx, rounded to the nearest position.
AddRounded(p, d) == (2 * (p * Sub + d) + Sub) \div (2 * Sub)

\* The displacements of a walk, in the finer units, all shorter than hitbox:
\* one position unit below hitbox towards +X and towards +Y, and one finer
\* unit below hitbox towards +X.
SmallDisps ==
    { d \in { <<(hitbox - 1) * Sub, 0>>, <<0, (hitbox - 1) * Sub>>,
              <<hitbox * Sub - 1, 0>> } :
        d[1] * d[1] + d[2] * d[2] < (hitbox * Sub) * (hitbox * Sub) }

\* generateMaze() has returned: the player stands at the spawn.
WalkStart ==
    /\ pc = "genDone"
    /\ SetTracker(initVisited(Now))
    /\ SetPose(ResetPose(fullscreen))
    /\ lastOp' = "initVisited"
    /\ pc' = "walking"
    /\ UNCHANGED <<screenVars, build, genVars, caller, calls, appFocused, quitApp>>

\* One frame's updatePlayerPosition with a short displacement; the walk ends
\* at a win.
SmallStep ==
    /\ pc = "walking"
    /\ calls < MaxSmallSteps
    /\ ~ checkWin(gameMap, posX, posY)
    /\ \E d \in SmallDisps :
         LET p == updatePlayerPosition(build, gameMap, <<posX, posY>>,
                                       AddRounded(posX, d[1]) - posX,
                                       AddRounded(posY, d[2]) - posY)
         IN /\ posX' = p[1]
            /\ posY' = p[2]
    /\ calls' = calls + 1
    /\ lastOp' = "updatePlayerPosition"
    /\ UNCHANGED <<poseVars, screenVars, build, genVars, pc, caller, trackVars,
                   appFocused, quitApp>>

\* The builds walked: raycast_maze.cpp (Finish passable, placed on the
\* border) and raycast_maze-v1.cpp (Finish an obstacle).
WalkBuilds == { b \in Builds : b.flags = {} /\ b.variant \in {"multi", "v1"} }

WalkInit == GenInit /\ build \in WalkBuilds /\ fullscreen = TRUE

WalkNext ==
    \/ GenStart
    \/ CarveStep
    \/ ForceBorders
    \/ PlaceFinish
    \/ MarkFinishV1
    \/ WalkStart
    \/ SmallStep

SpecWalk == WalkInit /\ [][WalkNext]_vars

\* C29: in raycast_maze.cpp, on a walk from the spawn of a generated maze
\* with every displacement shorter than hitbox, the player's centre is after
\* every updatePlayerPosition inside the grid and in a cell that is not Wall.
C29_NoTunnelling ==
    (build.variant = "multi" /\ pc = "walking") =>
        /\ InGrid(Trunc(posX), Trunc(posY))
        /\ getCell(gameMap, Trunc(posX), Trunc(posY)) # 1

\* C30: in raycast_maze-v1.cpp, on a walk with every displacement shorter
\* than hitbox, the player's centre never enters the Finish cell: checkWin
\* never becomes true.
C30_FinishSolidV1 ==
    (build.variant = "v1" /\ pc = "walking") =>
        /\ <<Trunc(posX), Trunc(posY)>> # <<finishX, finishY>>
        /\ ~ checkWin(gameMap, posX, posY)

====
